---- MODULE Spec2Model ----
(***************************************************************************)
(* Model of the GitHub Insights dashboard (main.py): the four fetch_*     *)
(* adapters around the extraction gateway, the per-dataset session cache   *)
(* kept in st.session_state, and the reshaping of a cached raw result      *)
(* into table rows and export documents that main() does for each tab.     *)
(***************************************************************************)
EXTENDS Integers, Sequences, FiniteSets, TLC

VARIABLES
    session_state,   \* st.session_state: key -> cached raw result
    api_key,         \* value of the sidebar text input in the current run
    button,          \* the refresh button pressed in the current run
    pc,              \* position of the current run of main()
    calls,           \* smartscraper calls issued per dataset in this run
    outcome,         \* per dataset: how its latest smartscraper call ended
    shown,           \* per dataset: what the run put on the page
    data,            \* normalizer study: the cached raw result rendered
    stage,           \* normalizer study: which rendering was applied
    view             \* normalizer study: the rendering produced

vars == <<session_state, api_key, button, pc, calls, outcome, shown,
          data, stage, view>>

(***************************************************************************)
(* Python values.  A JSON value / Python object is a tagged record.  The   *)
(* content of a str is a text: a sequence of lexical tokens, so that       *)
(* json.loads is a parser and json.dumps a printer.                        *)
(***************************************************************************)
Null == [t |-> "null"]
Num(n) == [t |-> "num", n |-> n]
Str(c) == [t |-> "str", c |-> c]
List(s) == [t |-> "list", s |-> s]
Map(f) == [t |-> "map", f |-> f]

IsStr(v) == v.t = "str"
IsList(v) == v.t = "list"
IsDict(v) == v.t = "map"

\* tokens of a text
W(w) == [k |-> "w", w |-> w]
Q(c) == [k |-> "q", c |-> c]
N(n) == [k |-> "n", n |-> n]
P(p) == [k |-> p]

\* the text of a plain word, and the str holding it
T(w) == <<W(w)>>
S(w) == Str(T(w))

EmptyDict == [x \in {} |-> Null]

Put(f, key, v) == [x \in DOMAIN f \cup {key} |-> IF x = key THEN v ELSE f[x]]

\* bool(v)
Truthy(v) ==
    CASE v.t = "null" -> FALSE
      [] v.t = "num" -> v.n # 0
      [] v.t = "str" -> Len(v.c) > 0
      [] v.t = "list" -> Len(v.s) > 0
      [] v.t = "map" -> DOMAIN v.f # {}

(***************************************************************************)
(* json.loads: a recursive-descent parser over the tokens of a text.       *)
(***************************************************************************)
ParseFail == [ok |-> FALSE, v |-> Null, next |-> 0]
ParseOk(v, next) == [ok |-> TRUE, v |-> v, next |-> next]

TokIs(toks, i, kind) == i <= Len(toks) /\ toks[i].k = kind

RECURSIVE ParseValue(_, _), ParseItems(_, _, _), ParseMembers(_, _, _)

ParseValue(toks, i) ==
    IF i > Len(toks) THEN ParseFail
    ELSE LET tk == toks[i] IN
         CASE tk.k = "null" -> ParseOk(Null, i + 1)
           [] tk.k = "n" -> ParseOk(Num(tk.n), i + 1)
           [] tk.k = "q" -> ParseOk(Str(tk.c), i + 1)
           [] tk.k = "[" -> IF TokIs(toks, i + 1, "]")
                            THEN ParseOk(List(<<>>), i + 2)
                            ELSE ParseItems(toks, i + 1, <<>>)
           [] tk.k = "{" -> IF TokIs(toks, i + 1, "}")
                            THEN ParseOk(Map(EmptyDict), i + 2)
                            ELSE ParseMembers(toks, i + 1, EmptyDict)
           [] OTHER -> ParseFail

ParseItems(toks, i, acc) ==
    LET r == ParseValue(toks, i) IN
    IF ~r.ok THEN ParseFail
    ELSE IF TokIs(toks, r.next, ",")
         THEN ParseItems(toks, r.next + 1, Append(acc, r.v))
         ELSE IF TokIs(toks, r.next, "]")
              THEN ParseOk(List(Append(acc, r.v)), r.next + 1)
              ELSE ParseFail

ParseMembers(toks, i, f) ==
    IF ~(TokIs(toks, i, "q") /\ TokIs(toks, i + 1, ":")) THEN ParseFail
    ELSE LET r == ParseValue(toks, i + 2) IN
         IF ~r.ok THEN ParseFail
         ELSE IF TokIs(toks, r.next, ",")
              THEN ParseMembers(toks, r.next + 1, Put(f, toks[i].c, r.v))
              ELSE IF TokIs(toks, r.next, "}")
                   THEN ParseOk(Map(Put(f, toks[i].c, r.v)), r.next + 1)
                   ELSE ParseFail

\* json.loads(text): ok = FALSE stands for json.JSONDecodeError
Loads(text) ==
    LET r == ParseValue(text, 1) IN
    IF r.ok /\ r.next = Len(text) + 1 THEN [ok |-> TRUE, v |-> r.v]
    ELSE [ok |-> FALSE, v |-> Null]

(***************************************************************************)
(* json.dumps(value, indent=2): the printer; indentation is white space    *)
(* and leaves no token.                                                    *)
(***************************************************************************)
RECURSIVE Dumps(_), DumpItems(_), DumpMembers(_, _)

Dumps(v) ==
    CASE v.t = "null" -> <<P("null")>>
      [] v.t = "num" -> <<N(v.n)>>
      [] v.t = "str" -> <<Q(v.c)>>
      [] v.t = "list" -> <<P("[")>> \o DumpItems(v.s) \o <<P("]")>>
      [] v.t = "map" -> <<P("{")>> \o DumpMembers(v.f, DOMAIN v.f) \o <<P("}")>>

DumpItems(s) ==
    IF s = <<>> THEN <<>>
    ELSE IF Len(s) = 1 THEN Dumps(s[1])
         ELSE Dumps(s[1]) \o <<P(",")>> \o DumpItems(Tail(s))

DumpMembers(f, keys) ==
    IF keys = {} THEN <<>>
    ELSE LET key == CHOOSE x \in keys : TRUE
             rest == keys \ {key}
             one == <<Q(key), P(":")>> \o Dumps(f[key])
         IN IF rest = {} THEN one
            ELSE one \o <<P(",")>> \o DumpMembers(f, rest)

(***************************************************************************)
(* The rows built for the two tabs that reshape their cached result.       *)
(***************************************************************************)
NA == S("N/A")

\* dev[field] if isinstance(dev, dict) and field in dev else 'N/A'
DevGet(dev, field) ==
    IF IsDict(dev) /\ T(field) \in DOMAIN dev.f THEN dev.f[T(field)] ELSE NA

\* the dict appended to developers_data
DevRow(dev) ==
    ("Username" :> DevGet(dev, "username")) @@
    ("Full Name" :> DevGet(dev, "full_name")) @@
    ("Popular Repository" :> DevGet(dev, "popular_repo")) @@
    ("Repository Description" :> DevGet(dev, "repo_description")) @@
    ("Company" :> DevGet(dev, "company"))

\* repo.get(field, default) on a dict
DictGet(repo, field, default) ==
    IF T(field) \in DOMAIN repo.f THEN repo.f[T(field)] ELSE default

\* the dict appended to repos_data
RepoRow(repo) ==
    ("Repository" :> DictGet(repo, "name", NA)) @@
    ("Description" :> DictGet(repo, "description", NA)) @@
    ("Stars" :> DictGet(repo, "stars", Num(0))) @@
    ("Language" :> DictGet(repo, "language", S("Unknown")))

\* the decoding of a cached str, and the wrapping of a non-list, that both
\* tabs do before their loop
RawSequence(cached) ==
    LET r == IF IsStr(cached) THEN Loads(cached.c) ELSE [ok |-> TRUE, v |-> cached]
        raw == IF r.ok THEN r.v ELSE List(<<>>)
    IN [invalid |-> ~r.ok, seq |-> IF IsList(raw) THEN raw.s ELSE <<raw>>]

\* a loop that stops at the first str that does not decode
RECURSIVE DevLoopStop(_, _)
DevLoopStop(seq, developers_data) ==
    IF seq = <<>> THEN developers_data
    ELSE LET dev == Head(seq) IN
         IF IsStr(dev)
         THEN LET r == Loads(dev.c) IN
              IF ~r.ok THEN developers_data
              ELSE DevLoopStop(Tail(seq), Append(developers_data, DevRow(r.v)))
         ELSE DevLoopStop(Tail(seq), Append(developers_data, DevRow(dev)))

\* for dev in raw_developers
RECURSIVE DevLoop(_, _)
DevLoop(seq, developers_data) ==
    IF seq = <<>> THEN developers_data
    ELSE LET dev == Head(seq) IN
         IF IsStr(dev)
         THEN LET r == Loads(dev.c) IN
              IF ~r.ok THEN DevLoop(Tail(seq), developers_data)
              ELSE DevLoop(Tail(seq), Append(developers_data, DevRow(r.v)))
         ELSE DevLoop(Tail(seq), Append(developers_data, DevRow(dev)))

\* for repo in raw_repos; repo.get on anything but a dict is an
\* AttributeError, which nothing in main catches
RECURSIVE RepoLoop(_, _)
RepoLoop(seq, repos_data) ==
    IF seq = <<>> THEN [raised |-> FALSE, rows |-> repos_data]
    ELSE LET el == Head(seq)
             r == IF IsStr(el) THEN Loads(el.c) ELSE [ok |-> TRUE, v |-> el]
         IN IF ~r.ok THEN RepoLoop(Tail(seq), repos_data)
            ELSE IF ~IsDict(r.v) THEN [raised |-> TRUE, rows |-> repos_data]
                 ELSE RepoLoop(Tail(seq), Append(repos_data, RepoRow(r.v)))

NoView == [raised |-> FALSE, shown |-> {}, rows |-> <<>>, json |-> <<>>]

\* the body of tab1 below the fetches
DevelopersView(cached) ==
    IF ~Truthy(cached)
    THEN [NoView EXCEPT !.shown = {"warning"}]
    ELSE LET raw == RawSequence(cached) IN
         [raised |-> FALSE,
          shown |-> {"table", "csv", "json"}
                    \cup (IF raw.invalid THEN {"error"} ELSE {}),
          rows |-> DevLoop(raw.seq, <<>>),
          json |-> Dumps(cached)]

\* the body of tab2 below the fetches
ExploreView(cached) ==
    IF ~Truthy(cached)
    THEN [NoView EXCEPT !.shown = {"warning"}]
    ELSE LET raw == RawSequence(cached)
             loop == RepoLoop(raw.seq, <<>>)
             err == IF raw.invalid THEN {"error"} ELSE {}
         IN IF loop.raised
            THEN [raised |-> TRUE, shown |-> err \cup {"exception"},
                  rows |-> <<>>, json |-> <<>>]
            ELSE [raised |-> FALSE, shown |-> err \cup {"table", "csv", "json"},
                  rows |-> loop.rows, json |-> Dumps(cached)]

(***************************************************************************)
(* Tabs 3 and 4 look one key up in the cached result.                      *)
(***************************************************************************)
RECURSIVE TextHas(_, _)
\* word in text, for a str
TextHas(c, word) ==
    \E i \in 1..Len(c) :
        \/ c[i].k = "w" /\ c[i].w = word
        \/ c[i].k = "q" /\ TextHas(c[i].c, word)

\* word in v: "TypeError" when v is not a container
PyIn(word, v) ==
    CASE v.t = "map" -> IF T(word) \in DOMAIN v.f THEN "yes" ELSE "no"
      [] v.t = "list" -> IF \E i \in 1..Len(v.s) : v.s[i] = S(word)
                         THEN "yes" ELSE "no"
      [] v.t = "str" -> IF TextHas(v.c, word) THEN "yes" ELSE "no"
      [] OTHER -> "TypeError"

\* the body of tab3 / tab4 below the fetches; v[word] on a str or a list is
\* a TypeError.  The value under the key is handed to pd.DataFrame as it
\* is; the results considered hold a list there, and the rows of that
\* table are not modelled.
KeyedView(cached, word) ==
    IF ~Truthy(cached)
    THEN [NoView EXCEPT !.shown = {"warning"}]
    ELSE LET has == PyIn(word, cached) IN
         IF has = "TypeError" \/ (has = "yes" /\ ~IsDict(cached))
         THEN [NoView EXCEPT !.raised = TRUE, !.shown = {"exception"}]
         ELSE IF has = "no"
              THEN [NoView EXCEPT !.shown = {"error"}]
              ELSE [raised |-> FALSE, shown |-> {"table", "csv", "json"},
                    rows |-> <<>>, json |-> Dumps(cached)]

TopicsView(cached) == KeyedView(cached, "featured_topics")
CollectionsView(cached) == KeyedView(cached, "collections")

(***************************************************************************)
(* The extraction gateway and the four fetch_* adapters.  A gateway        *)
(* response is either an exception raised by smartscraper or a dict.       *)
(***************************************************************************)
Raise == [t |-> "raise"]
Response(result) == Map(T("result") :> result)
NoResult == Map(EmptyDict)

\* what a fetch_* call returns, whether its call succeeded, what it displays
Fetched(value, ok, msgs) == [value |-> value, ok |-> ok, shown |-> msgs]

\* try: ... return response['result']   except Exception: return None
\* (response['result'] on a dict without the key is a KeyError, caught too)
fetch_trending_developers(response) ==
    IF response = Raise \/ T("result") \notin DOMAIN response.f
    THEN Fetched(Null, FALSE, {})
    ELSE Fetched(response.f[T("result")], TRUE, {"raw"})

fetch_github_explore(response) ==
    IF response = Raise \/ T("result") \notin DOMAIN response.f
    THEN Fetched(Null, FALSE, {})
    ELSE Fetched(response.f[T("result")], TRUE, {"raw"})

fetch_github_topics(response) ==
    IF response = Raise \/ T("result") \notin DOMAIN response.f
    THEN Fetched(Null, FALSE, {"error"})
    ELSE Fetched(response.f[T("result")], TRUE, {})

fetch_github_collections(response) ==
    IF response = Raise \/ T("result") \notin DOMAIN response.f
    THEN Fetched(Null, FALSE, {"error"})
    ELSE Fetched(response.f[T("result")], TRUE, {})

(***************************************************************************)
(* One run of main(): the script runs top to bottom, tab by tab.           *)
(***************************************************************************)
Datasets == {"trending_data", "explore_data", "topics_data", "collections_data"}

Fetch(d, response) ==
    CASE d = "trending_data" -> fetch_trending_developers(response)
      [] d = "explore_data" -> fetch_github_explore(response)
      [] d = "topics_data" -> fetch_github_topics(response)
      [] d = "collections_data" -> fetch_github_collections(response)

View(d, cached) ==
    CASE d = "trending_data" -> DevelopersView(cached)
      [] d = "explore_data" -> ExploreView(cached)
      [] d = "topics_data" -> TopicsView(cached)
      [] d = "collections_data" -> CollectionsView(cached)

TabPc(d) ==
    CASE d = "trending_data" -> "tab1"
      [] d = "explore_data" -> "tab2"
      [] d = "topics_data" -> "tab3"
      [] d = "collections_data" -> "tab4"

AfterTab(d) ==
    CASE d = "trending_data" -> "tab2"
      [] d = "explore_data" -> "tab3"
      [] d = "topics_data" -> "tab4"
      [] d = "collections_data" -> "done"

\* a run that goes on without a key
KeyMissingNever(k) == FALSE

\* if not api_key
KeyMissing(k) == k = ""

\* the explore button assigning the developers' entry
StoreKeyShared(d) == IF d = "explore_data" THEN "trending_data" ELSE d

\* the session key a pressed refresh button assigns
StoreKey(d) == d

\* a fetch on every run
MissingAlways(ss, d) == TRUE

\* a fetch whenever the entry is absent or empty
MissingOrEmpty(ss, d) == d \notin DOMAIN ss \/ ~Truthy(ss[d])

\* 'trending_data' not in st.session_state
Missing(ss, d) == d \notin DOMAIN ss

\* results the gateway is let return
DevRecord == Map((T("username") :> S("ada")) @@ (T("name") :> S("proj1")))
GoodList == List(<<DevRecord>>)
GoodMap == Map((T("featured_topics") :> List(<<>>)) @@ (T("collections") :> List(<<>>)))
GatewayResults ==
    {Null, Num(5), S("oops"), List(<<Num(5)>>), GoodList, GoodMap}

Responses == {Raise, NoResult} \cup {Response(v) : v \in GatewayResults}

NoButton == "none"
ApiKeys == {"", "sgai-key"}

\* the script starts: the sidebar is read, and without a key main returns.
\* A button can be pressed only if the previous run drew it.
StartRun ==
    /\ pc \in {"idle", "done", "raised"}
    /\ \E k \in ApiKeys :
       \E b \in {NoButton} \cup {d \in Datasets : shown[d] # {} /\ k # ""} :
         /\ api_key' = k
         /\ button' = b
         /\ pc' = IF KeyMissing(k) THEN "done" ELSE "tab1"
    /\ calls' = [d \in Datasets |-> 0]
    /\ shown' = [d \in Datasets |-> {}]
    /\ UNCHANGED <<session_state, outcome, data, stage, view>>

\* with tabN: the pressed button's fetch, the fetch of a missing entry, the
\* rendering of the entry
Tab(d) ==
    /\ pc = TabPc(d)
    /\ \E r1 \in (IF button = d THEN Responses ELSE {Raise}) :
         LET pressed == button = d
             f1 == Fetch(d, r1)
             ss1 == IF pressed THEN Put(session_state, StoreKey(d), f1.value)
                    ELSE session_state
             absent == Missing(ss1, d)
         IN \E r2 \in (IF absent THEN Responses ELSE {Raise}) :
              LET f2 == Fetch(d, r2)
                  ss2 == IF absent THEN Put(ss1, d, f2.value) ELSE ss1
                  n == (IF pressed THEN 1 ELSE 0) + (IF absent THEN 1 ELSE 0)
                  last == IF absent THEN f2 ELSE f1
                  v == View(d, ss2[d])
              IN /\ session_state' = ss2
                 /\ calls' = [calls EXCEPT ![d] = n]
                 /\ outcome' = IF n = 0 THEN outcome
                               ELSE [outcome EXCEPT
                                       ![d] = IF last.ok THEN "ok" ELSE "failed"]
                 /\ shown' = [shown EXCEPT
                                ![d] = (IF pressed THEN f1.shown ELSE {})
                                       \cup (IF absent THEN f2.shown ELSE {})
                                       \cup v.shown]
                 /\ pc' = IF v.raised THEN "raised" ELSE AfterTab(d)
    /\ UNCHANGED <<api_key, button, data, stage, view>>

DevelopersTab == Tab("trending_data")
ExploreTab == Tab("explore_data")
TopicsTab == Tab("topics_data")
CollectionsTab == Tab("collections_data")

InitSession ==
    /\ session_state = EmptyDict
    /\ api_key = ""
    /\ button = NoButton
    /\ pc = "idle"
    /\ calls = [d \in Datasets |-> 0]
    /\ outcome = [d \in Datasets |-> "nocall"]
    /\ shown = [d \in Datasets |-> {}]

Init ==
    /\ InitSession
    /\ data = Null
    /\ stage = "start"
    /\ view = NoView

Next ==
    \/ StartRun
    \/ DevelopersTab
    \/ ExploreTab
    \/ TopicsTab
    \/ CollectionsTab

Spec == Init /\ [][Next]_vars

(***************************************************************************)
(* Properties of the session cache and of the runs of main().              *)
(***************************************************************************)

\* the step in which the tab of d issued a call
Called(d) == calls'[d] > calls[d]

\* C1: a refresh whose extraction call fails leaves the dataset's cached
\* result as it was before the refresh, and the prior data stays displayed.
C1_FailedRefreshKeepsCache ==
    [][\A d \in Datasets :
         (Called(d) /\ outcome'[d] = "failed" /\ d \in DOMAIN session_state)
            => /\ session_state'[d] = session_state[d]
               /\ (Truthy(session_state[d]) => "warning" \notin shown'[d])]_vars

\* C2: whatever the gateway returns for a dataset, its tab ends in a table,
\* a warning or an error message, never in an exception that leaves main.
C2_NoUncaughtException ==
    /\ pc # "raised"
    /\ \A d \in Datasets :
         shown[d] # {} => /\ "exception" \notin shown[d]
                          /\ shown[d] \cap {"table", "warning", "error"} # {}

\* C3: a run with an empty API key issues no extraction call and neither
\* creates nor changes a session cache entry.
C3_EmptyKeyDisablesRefresh ==
    [][api_key' = "" =>
         /\ session_state' = session_state
         /\ \A d \in Datasets : calls'[d] = 0]_vars

C3_Witness ==
    /\ api_key = ""
    /\ pc = "done"
    /\ DOMAIN session_state = Datasets
    /\ \E d \in Datasets : outcome[d] = "ok"

\* C4 as stated: an extraction call for a dataset is issued only if that
\* dataset's refresh button was pressed in the run.
C4_CallOnlyOnPress ==
    [][\A d \in Datasets : Called(d) => button' = d]_vars

\* C4 amended: an extraction call for a dataset is issued only if that
\* dataset's refresh button was pressed in the run or the dataset has no
\* session cache entry yet.
C4_CallOnlyOnPressOrFirstLoad ==
    [][\A d \in Datasets :
         Called(d) => (button' = d \/ d \notin DOMAIN session_state)]_vars

C4_Witness ==
    \E d \in Datasets :
        /\ button = d
        /\ calls[d] = 1
        /\ pc = "done"
        /\ \A e \in Datasets \ {d} : calls[e] = 0

\* C5: a run issues at most one extraction call per dataset, and after a
\* failed call no further call for the dataset is issued until its refresh
\* button is pressed.
C5_NoRetryNoDuplicate ==
    [][\A d \in Datasets :
         /\ calls'[d] <= 1
         /\ (outcome[d] = "failed" /\ Called(d)) => button' = d]_vars

C5_Witness ==
    \E d \in Datasets :
        /\ outcome[d] = "failed"
        /\ shown[d] # {}
        /\ calls[d] = 0
        /\ button # d

\* C6: once all four entries exist, a run in which the refresh button of x
\* is pressed leaves the entries of the other three datasets unchanged and
\* issues no call for them.
C6_RefreshTouchesOneDataset ==
    [][\A x \in Datasets :
         (DOMAIN session_state = Datasets /\ button' = x)
            => \A e \in Datasets \ {x} :
                 /\ session_state'[e] = session_state[e]
                 /\ calls'[e] = 0]_vars

C6_Witness ==
    \E x \in Datasets :
        /\ button = x
        /\ calls[x] = 1
        /\ outcome[x] = "failed"
        /\ pc = "done"
        /\ \A e \in Datasets \ {x} : calls[e] = 0 /\ Truthy(session_state[e])

(***************************************************************************)
(* The reshaping on its own: a tab body applied to one cached raw result   *)
(* drawn from a bounded set of JSON values.                                *)
(***************************************************************************)
MaxLen == 2

DevFields == {"username", "full_name", "popular_repo", "repo_description", "company"}

Column(field) ==
    CASE field = "username" -> "Username"
      [] field = "full_name" -> "Full Name"
      [] field = "popular_repo" -> "Popular Repository"
      [] field = "repo_description" -> "Repository Description"
      [] field = "company" -> "Company"
      [] field = "name" -> "Repository"
      [] field = "description" -> "Description"
      [] field = "stars" -> "Stars"
      [] field = "language" -> "Language"

RepoRecord ==
    Map((T("name") :> S("proj1")) @@ (T("description") :> Null) @@
        (T("stars") :> Num(7)) @@ (T("language") :> S("Python")))

\* the elements a result list is made of
Elements ==
    {DevRecord, RepoRecord, Num(5), Null, List(<<>>), S("oops"),
     Str(Dumps(DevRecord)), Str(Dumps(Num(5)))}

Lists == {List(s) : s \in UNION {[1..n -> Elements] : n \in 0..MaxLen}}

\* every mapping over the developer fields and one more key, each field
\* absent, null or set
DevMappings ==
    {Map(f) : f \in UNION {[K -> {Null, S("ada")}] :
                             K \in SUBSET {T(k) : k \in DevFields \cup {"login"}}}}

RawResults ==
    Lists \cup {Str(Dumps(l)) : l \in Lists}
          \cup DevMappings \cup {List(<<m>>) : m \in DevMappings}
          \cup {Num(5), S("oops")}

RenderDevelopers ==
    /\ stage = "start"
    /\ stage' = "developers"
    /\ view' = DevelopersView(data)
    /\ UNCHANGED <<session_state, api_key, button, pc, calls, outcome, shown, data>>

RenderExplore ==
    /\ stage = "start"
    /\ stage' = "explore"
    /\ view' = ExploreView(data)
    /\ UNCHANGED <<session_state, api_key, button, pc, calls, outcome, shown, data>>

InitNorm ==
    /\ InitSession
    /\ data \in RawResults
    /\ stage = "start"
    /\ view = NoView

NextNorm ==
    \/ RenderDevelopers
    \/ RenderExplore

SpecNorm == InitNorm /\ [][NextNorm]_vars

\* the sequence a tab loops over, and what an element of it decodes to
InputSeq == RawSequence(data).seq
Unparsable(el) == IsStr(el) /\ ~Loads(el.c).ok
Decoded(el) == IF IsStr(el) /\ Loads(el.c).ok THEN Loads(el.c).v ELSE el
Kept == SelectSeq(InputSeq, LAMBDA el : ~Unparsable(el))
Rendered == stage \in {"developers", "explore"} /\ Truthy(data)

\* C7: a Record built from a mapping has 'N/A' in every developer field
\* that is missing from the mapping or null in it, the mapping's value in
\* every other field, and no key outside the schema.
C7_RecordFromMapping ==
    (stage = "developers" /\ Truthy(data) /\ Len(InputSeq) = 1
       /\ IsDict(InputSeq[1]))
    => /\ Len(view.rows) = 1
       /\ DOMAIN view.rows[1] = {Column(field) : field \in DevFields}
       /\ \A field \in DevFields :
            LET m == InputSeq[1].f
                cell == view.rows[1][Column(field)]
            IN IF T(field) \notin DOMAIN m \/ m[T(field)] = Null
               THEN cell = NA
               ELSE cell = m[T(field)]

\* C8: an element that is a str which does not parse as JSON contributes
\* no Record and does not end the loop; the Records are those of the other
\* elements, in their order.
C8_UnparsableElementsDropped ==
    Rendered =>
      /\ stage = "developers" =>
           view.rows = [i \in 1..Len(Kept) |-> DevRow(Decoded(Kept[i]))]
      /\ stage = "explore" =>
           IF view.raised
           THEN \E i \in 1..Len(Kept) : ~IsDict(Decoded(Kept[i]))
           ELSE view.rows = [i \in 1..Len(Kept) |-> RepoRow(Decoded(Kept[i]))]

C8_Witness ==
    /\ stage = "developers"
    /\ data = List(<<S("oops"), DevRecord>>)
    /\ Len(view.rows) = 1
    /\ view.rows[1]["Username"] = S("ada")

\* the export parsed back is a one-key document listing the table's rows
RowsOfExport(doc, rows) ==
    /\ IsDict(doc)
    /\ Cardinality(DOMAIN doc.f) = 1
    /\ \A key \in DOMAIN doc.f :
         LET listed == doc.f[key] IN
         /\ IsList(listed)
         /\ Len(listed.s) = Len(rows)
         /\ \A i \in 1..Len(rows) :
              /\ IsDict(listed.s[i])
              /\ Cardinality(DOMAIN listed.s[i].f) = Cardinality(DOMAIN rows[i])
              /\ \A field \in DevFields \cup {"name", "description", "stars", "language"} :
                   Column(field) \in DOMAIN rows[i] =>
                     \E k \in {T(field), T(Column(field))} :
                        /\ k \in DOMAIN listed.s[i].f
                        /\ listed.s[i].f[k] = rows[i][Column(field)]

\* C9: the JSON export parses back to a document with a single top-level
\* key whose value is the list of the Records shown in the table.
C9_ExportIsRecordSet ==
    (Rendered /\ "json" \in view.shown) =>
        /\ Loads(view.json).ok
        /\ RowsOfExport(Loads(view.json).v, view.rows)

\* C10: in both loops an element that does not decode to a mapping is
\* skipped: it contributes no Record and raises no exception.
C10_NonMappingElementsSkipped ==
    Rendered =>
      /\ ~view.raised
      /\ Len(view.rows) =
           Cardinality({i \in 1..Len(InputSeq) : IsDict(Decoded(InputSeq[i]))})

====
